---- MODULE Spec2Model ----
(***************************************************************************)
(* Model of quickpaint.py: the batch-inference driver of MeuralPaint.      *)
(*                                                                         *)
(* main -> eval_mul_dims -> eval -> transfer -> (remainder) eval -> ...    *)
(*                                                                         *)
(* The program is single threaded.  Its state is the position of the       *)
(* interpreter (pc and the stack of eval/transfer activations), the local  *)
(* variables of the live activations and the output files on disk.         *)
(*                                                                         *)
(* External collaborators:                                                 *)
(*   - transform.net with a restored checkpoint is a deterministic,        *)
(*     shape-preserving per-pixel function NetPix(model, p);               *)
(*   - imread gives the image stored in an input file; imsave stores the   *)
(*     array it is handed (the disk records that array);                   *)
(*   - imread, imsave and saver.restore may fail (an I/O error),           *)
(*     saver.restore and sess.run may raise ResourceExhaustedError.        *)
(* An image is [shape |-> <<H, W, 3>>, pix |-> <<p1, p2>>]: both modelled  *)
(* shapes hold two pixels (the three channels of a pixel carry one value). *)
(***************************************************************************)
EXTENDS Integers, Sequences, FiniteSets, TLC

\* ------------------------------------------------------------------ bounds
MaxN == 5          \* files of an input directory: 0..MaxN
MaxB == 3          \* -b/--batch-size: 1..MaxB
MaxModels == 2     \* checkpoints resolved by main: 1..MaxModels
MaxOOM == 2        \* ResourceExhaustedErrors the devices raise in one run
MaxRuns == 2       \* runs of the program on the same files

Shapes == {<<1, 2, 3>>, <<2, 1, 3>>}
Masks == {0, 1}
Blends == {0, 50}  \* -bl/--blend in hundredths (0 and 0.5)

\* ------------------------------------------------------------ pure helpers
Min(a, b) == IF a < b THEN a ELSE b

Range(s) == {s[k] : k \in DOMAIN s}

\* Python's s[a:b] for 0 <= a, with b clamped to len(s).
PySlice(s, a, b) == SubSeq(s, a + 1, Min(b, Len(s)))

\* Python's s[a:].
PyFrom(s, a) == SubSeq(s, a + 1, Len(s))

MaxOf(S) == CHOOSE v \in S : \A w \in S : w <= v

\* ------------------------------------------------------------------- state
VARIABLES
  opts,      \* the parsed arguments (batch_size, mask, blend) and the file
             \* system under opts.in_path, opts.out_path: in_exists; out_new
             \* (out_path has no "." and does not exist when get_opts
             \* runs); in_isdir, out_isdir (what os.path.isdir answers main)
  fs,        \* the input files: file name k holds the image fs[k]
  models,    \* main's list of checkpoints
  run,       \* number of the program run (a user may run the program again)
  pc,        \* "opts", "main", "group", "evals", "run", "done", "aborted"
  m,         \* main's loop index over models (1-based)
  full_in,   \* main's full_in
  full_out,  \* main's full_out
  gi,        \* eval_mul_dims' loop index i
  groups,    \* in_path_of_shape / out_path_of_shape, in insertion order
  si,        \* position of eval_mul_dims' second loop in groups (1-based)
  stack,     \* live eval activations, each with the transfer call it is in
  disk,      \* output files: path -> array handed to imsave
  exc,       \* the exception that ended the run, "none" while there is none
  raised,    \* the exception the latest step raised, "none" if it raised none
  noom,      \* ResourceExhaustedErrors raised so far
  snap,      \* the disk as the first completed run left it
  passes,    \* the passes main started in this run: model, full_in, full_out
  wrote,     \* the output paths written in this run
  made       \* get_opts of this run created the output directory

vars == <<opts, fs, models, run, pc, m, full_in, full_out, gi, groups, si,
          stack, disk, exc, raised, noom, snap, passes, wrote, made>>

\* ------------------------------------------------------------------- paths
InPathOf(k) == <<"in", <<k>>>>
OutPath == <<"out">>
Join(dir, name) == Append(dir, name)
Basename(path) == path[Len(path)]

\* A slip in the paths: the outputs land on the inputs, so a file that was
\* written is read back as the input.
ImreadWritten(path) ==
  LET k == Basename(path)[1]
      o == Join(OutPath, <<k>>)
  IN IF o \in DOMAIN disk THEN [shape |-> fs[k].shape, pix |-> disk[o]] ELSE fs[k]

\* imread(path, mode='RGB') on an input file.
Imread(path) == fs[Basename(path)[1]]

\* read_img: imread(mode='RGB') always yields three channels, the dstack
\* branch is never taken.
read_img(src) == Imread(src)

\* A slip in the key: height and width swapped into one "area x channels".
ShapeKeyArea(shape) == <<shape[1] * shape[2], "x", shape[3]>>

\* "%dx%dx%d" % shape: the decimal rendering of three naturals joined by
\* "x" names the triple and nothing else, so the triple stands for the key.
ShapeKey(shape) == <<shape[1], "x", shape[2], "x", shape[3]>>

\* ------------------------------------------------------------ the network
\* transform.net with the checkpoint of `model` restored: one value per pixel.
NetPix(model, p) == 300 - p - 40 * model

\* sess.run(preds, feed_dict={img_placeholder: x}) on the batch buffer x.
SessRun(model, x) == [k \in DOMAIN x |-> [q \in DOMAIN x[k] |-> NetPix(model, x[k][q])]]

\* np.clip(a, 0, 255).astype(np.uint8)
Clip(a) == [q \in DOMAIN a |-> IF a[q] < 0 THEN 0 ELSE IF a[q] > 255 THEN 255 ELSE a[q]]

\* np.zeros(batch_shape): a buffer of batch_size black images.
Zeros(batch_size) == [k \in 1..batch_size |-> <<0, 0>>]

\* ---------------------------------------------------------------- get_opts
\* The assertions of lines 63-67 (argparse made batch_size and mask ints,
\* blend a float: here in hundredths).
ValidOpts(o) == o.batch_size > 0 /\ (o.mask = 1 \/ o.mask = 0) /\ o.blend <= 100

\* get_opts returns: the input path exists, the output directory was made
\* if out_path has no "." and did not exist, and the assertions hold.
GetOpts ==
  /\ pc = "opts"
  /\ opts.in_exists
  /\ ValidOpts(opts)
  /\ made' = opts.out_new
  /\ pc' = "main"
  /\ raised' = "none"
  /\ UNCHANGED <<opts, fs, models, run, m, full_in, full_out, gi, groups, si,
                 stack, disk, exc, noom, snap, passes, wrote>>

\* An assertion of get_opts fails: line 53 before the output directory is
\* looked at, lines 63-67 after lines 55-58 have made it.
GetOptsFail ==
  /\ pc = "opts"
  /\ ~(opts.in_exists /\ ValidOpts(opts))
  /\ made' = (opts.in_exists /\ opts.out_new)
  /\ pc' = "aborted"
  /\ exc' = "assert"
  /\ raised' = "assert"
  /\ UNCHANGED <<opts, fs, models, run, m, full_in, full_out, gi, groups, si,
                 stack, disk, noom, snap, passes, wrote>>

\* -------------------------------------------------------------------- main
\* The names os.walk collects from the input directory.
WalkFiles == [k \in 1..Len(fs) |-> <<k>>]

\* full_in, full_out of main for the checkpoint `model`.
MainFullIn ==
  IF ~opts.in_isdir THEN <<InPathOf(1)>>
  ELSE [k \in 1..Len(WalkFiles) |-> Join(<<"in">>, WalkFiles[k])]

MainFullOut(model) ==
  IF ~opts.in_isdir
  THEN LET in_name == Basename(InPathOf(1))
           out_name == Append(in_name, model)
       IN <<IF opts.out_isdir THEN Join(OutPath, out_name) ELSE OutPath>>
  ELSE [k \in 1..Len(WalkFiles) |->
          IF opts.out_isdir THEN Join(OutPath, WalkFiles[k]) ELSE OutPath]

\* One iteration of `for m, model in enumerate(models)` up to the call of
\* eval_mul_dims, whose locals are set up.
MainPass ==
  /\ pc = "main"
  /\ m <= Len(models)
  /\ full_in' = MainFullIn
  /\ full_out' = MainFullOut(models[m])
  /\ gi' = 0
  /\ groups' = <<>>
  /\ si' = 1
  /\ pc' = IF Len(MainFullIn) > 0 THEN "group" ELSE "evals"
  /\ passes' = Append(passes, [model |-> models[m], full_in |-> MainFullIn,
                                full_out |-> MainFullOut(models[m])])
  /\ raised' = "none"
  /\ UNCHANGED <<made, opts, fs, models, wrote, run, m, stack, disk, exc, noom, snap>>

\* The loop over models is exhausted: main prints and returns.
MainDone ==
  /\ pc = "main"
  /\ m > Len(models)
  /\ pc' = "done"
  /\ snap' = IF run = 1 THEN disk ELSE snap
  /\ raised' = "none"
  /\ UNCHANGED <<made, opts, fs, models, passes, wrote, run, m, full_in, full_out, gi, groups, si,
                 stack, disk, exc, noom>>

\* ----------------------------------------------------------- eval_mul_dims
\* A slip in the grouping: the pair is put in front of its group.
AppendToFront(g, key, in_image, out_image) ==
  IF \E k \in DOMAIN g : g[k].shape = key
  THEN [k \in DOMAIN g |->
          IF g[k].shape = key
          THEN [g[k] EXCEPT !.ins = <<in_image>> \o @, !.outs = <<out_image>> \o @]
          ELSE g[k]]
  ELSE Append(g, [shape |-> key, ins |-> <<in_image>>, outs |-> <<out_image>>])

\* A slip in the grouping: the output path is put in front of its list, the
\* input path at the end of its own.
AppendToCrossed(g, key, in_image, out_image) ==
  IF \E k \in DOMAIN g : g[k].shape = key
  THEN [k \in DOMAIN g |->
          IF g[k].shape = key
          THEN [g[k] EXCEPT !.ins = Append(@, in_image), !.outs = <<out_image>> \o @]
          ELSE g[k]]
  ELSE Append(g, [shape |-> key, ins |-> <<in_image>>, outs |-> <<out_image>>])

\* defaultdict(list)[shape].append(v) on both mappings: a new key is added
\* at the end, an existing key keeps its place.
AppendTo(g, key, in_image, out_image) ==
  IF \E k \in DOMAIN g : g[k].shape = key
  THEN [k \in DOMAIN g |->
          IF g[k].shape = key
          THEN [g[k] EXCEPT !.ins = Append(@, in_image), !.outs = Append(@, out_image)]
          ELSE g[k]]
  ELSE Append(g, [shape |-> key, ins |-> <<in_image>>, outs |-> <<out_image>>])

\* One iteration of `for i in range(len(in_path))`.
GroupStep ==
  /\ pc = "group"
  /\ gi < Len(full_in)
  /\ LET in_image == full_in[gi + 1]
         out_image == full_out[gi + 1]
         shape == ShapeKey(Imread(in_image).shape)
     IN groups' = AppendTo(groups, shape, in_image, out_image)
  /\ gi' = gi + 1
  /\ pc' = IF gi + 1 < Len(full_in) THEN "group" ELSE "evals"
  /\ raised' = "none"
  /\ UNCHANGED <<made, opts, fs, models, passes, wrote, run, m, full_in, full_out, si, stack, disk,
                 exc, noom, snap>>

\* imread fails in the grouping loop: nothing catches it, the run ends.
GroupFail ==
  /\ pc = "group"
  /\ gi < Len(full_in)
  /\ pc' = "aborted"
  /\ exc' = "io"
  /\ raised' = "io"
  /\ UNCHANGED <<made, opts, fs, models, passes, wrote, run, m, full_in, full_out, gi, groups, si,
                 stack, disk, noom, snap>>

\* -------------------------------------------------------------------- eval
Device == "/gpu:0"     \* opts.device (its default)
CpuDevice == "/cpu:0"

\* A slip in eval: the batch size is used as configured.
EffBatchUnclamped(paths_out, batch_size) == batch_size

\* batch_size = min(len(paths_out), batch_size)
EffBatch(paths_out, batch_size) == Min(Len(paths_out), batch_size)

\* The locals of a transfer call that has not run a statement yet.
TransferLocals ==
  [tpc |-> "setup", img_shape |-> <<>>, num_iters |-> 0, i |-> 0, j |-> 0,
   x |-> <<>>, xsrc |-> <<>>, preds |-> <<>>, nruns |-> 0,
   own |-> <<>>, sub |-> <<>>, calls |-> 0, restored |-> FALSE, subruns |-> 0]

\* An eval activation entering its try block: the session of graph g is
\* open on `device` and transfer is called with the clamped batch size.
\* tpc, img_shape, num_iters, i, j, x, preds are transfer's locals; xsrc
\* (the file each slot of x was decoded from), nruns (sess.run calls),
\* restored (saver.restore has returned in this session), subruns (the
\* sess.run calls of the eval call it made, when that has returned), own
\* (what this transfer call wrote, in order), sub (what the eval call it made
\* wrote), calls (eval calls it made), trans (handler entries of this eval
\* call) and pwrote (outputs the transfer call of the failed Primary attempt
\* had written) record its history.
EvalFrame(data_in, paths_out, model_path, device, batch_size, mask, blend) ==
  [data_in |-> data_in, paths_out |-> paths_out, model_path |-> model_path,
   device |-> device, batch_size |-> EffBatch(paths_out, batch_size),
   mask |-> mask, blend |-> blend,
   phase |-> "primary", ctx |-> device, trans |-> 0, pwrote |-> 0] @@ TransferLocals

\* A slip in the handler: the retry leaves out the first batch.
FallbackTail(f) ==
  [data_in |-> PyFrom(f.data_in, f.batch_size),
   paths_out |-> PyFrom(f.paths_out, f.batch_size), model_path |-> f.model_path,
   device |-> f.device, batch_size |-> f.batch_size,
   mask |-> f.mask, blend |-> f.blend,
   phase |-> "fallback", ctx |-> CpuDevice, trans |-> f.trans + 1,
   pwrote |-> Len(f.own)] @@ TransferLocals

\* The handler of `except tf.errors.ResourceExhaustedError`: the session of
\* gc is open on the CPU and transfer is called again with the same
\* arguments.
Fallback(f) ==
  [data_in |-> f.data_in, paths_out |-> f.paths_out, model_path |-> f.model_path,
   device |-> f.device, batch_size |-> f.batch_size,
   mask |-> f.mask, blend |-> f.blend,
   phase |-> "fallback", ctx |-> CpuDevice, trans |-> f.trans + 1,
   pwrote |-> Len(f.own)] @@ TransferLocals

\* A slip in the handler: a bare `except:` around the Primary attempt.
CatchesAny(f, kind) == f.phase = "primary"

\* Does the try statement of activation f catch an exception of this kind
\* raised by its transfer call?  Only the try block (Primary) is guarded and
\* only ResourceExhaustedError is named.
Catches(f, kind) == f.phase = "primary" /\ kind = "oom"

\* The stack after an exception of `kind` leaves the transfer call of the
\* innermost activation: it goes up through the `with` blocks (closing their
\* sessions) to the first activation that catches it, or out of main.
RECURSIVE Unwind(_, _)
Unwind(st, kind) ==
  IF st = <<>> THEN <<>>
  ELSE IF Catches(st[Len(st)], kind)
       THEN [st EXCEPT ![Len(st)] = Fallback(st[Len(st)])]
       ELSE Unwind(SubSeq(st, 1, Len(st) - 1), kind)

Top == stack[Len(stack)]

SetTop(f) == [stack EXCEPT ![Len(stack)] = f]

\* A slip in the failure handling: the outputs the failed transfer call
\* wrote are removed.
RaiseRollback(kind) ==
  /\ stack' = Unwind(stack, kind)
  /\ raised' = kind
  /\ noom' = IF kind = "oom" THEN noom + 1 ELSE noom
  /\ pc' = IF Unwind(stack, kind) = <<>> THEN "aborted" ELSE pc
  /\ exc' = IF Unwind(stack, kind) = <<>> THEN kind ELSE exc
  /\ disk' = [p \in DOMAIN disk \ {Top.own[k].out : k \in DOMAIN Top.own} |-> disk[p]]
  /\ UNCHANGED <<made, opts, fs, models, passes, wrote, run, m, full_in, full_out, gi, groups, si,
                 snap>>

\* A step of the innermost transfer call raises an exception.
Raise(kind) ==
  /\ stack' = Unwind(stack, kind)
  /\ raised' = kind
  /\ noom' = IF kind = "oom" THEN noom + 1 ELSE noom
  /\ pc' = IF Unwind(stack, kind) = <<>> THEN "aborted" ELSE pc
  /\ exc' = IF Unwind(stack, kind) = <<>> THEN kind ELSE exc
  /\ UNCHANGED <<made, opts, fs, models, passes, wrote, run, m, full_in, full_out, gi, groups, si,
                 disk, snap>>

\* The sessions that are open: every activation on the stack is inside the
\* `with ... tf.Session(...)` block of its try block or of its handler (the
\* session of a failed Primary attempt was closed when the exception left
\* its block).
OpenSessions == Len(stack)

\* `for shape in in_path_of_shape`: eval is called on the next group.
EvalCall ==
  /\ pc = "evals"
  /\ si <= Len(groups)
  /\ stack' = <<EvalFrame(groups[si].ins, groups[si].outs, models[m], Device,
                          opts.batch_size, opts.mask, opts.blend)>>
  /\ pc' = "run"
  /\ raised' = "none"
  /\ UNCHANGED <<made, opts, fs, models, passes, wrote, run, m, full_in, full_out, gi, groups, si,
                 disk, exc, noom, snap>>

\* The loop over the groups is exhausted: eval_mul_dims returns to main.
PassDone ==
  /\ pc = "evals"
  /\ si > Len(groups)
  /\ m' = m + 1
  /\ pc' = "main"
  /\ raised' = "none"
  /\ UNCHANGED <<made, opts, fs, models, passes, wrote, run, full_in, full_out, gi, groups, si,
                 stack, disk, exc, noom, snap>>

\* ---------------------------------------------------------------- transfer
\* A slip in the batch count: rounding up instead of down.
NumItersCeil(n, batch_size) == (n + batch_size - 1) \div batch_size

\* num_iters = int(len(paths_out) / batch_size)
NumIters(n, batch_size) == n \div batch_size

\* pos = i * batch_size; paths[pos:pos + batch_size]
CurrBatch(paths, i, batch_size) == PySlice(paths, i * batch_size, i * batch_size + batch_size)

\* The head of `for i in range(num_iters)` with loop index i: the next batch
\* starts on a fresh buffer, or the loop is left for the remainder.
LoopHead(f, i) ==
  IF i < f.num_iters
  THEN [f EXCEPT !.tpc = "fill", !.i = i, !.j = 0,
                 !.x = Zeros(f.batch_size),
                 !.xsrc = [k \in 1..f.batch_size |-> <<>>]]
  ELSE [f EXCEPT !.tpc = "rem"]

\* A slip in transfer: the batch loop is entered without the restore.
AfterSetupSkip(f) ==
  LoopHead([f EXCEPT !.num_iters = NumIters(Len(f.paths_out), f.batch_size)], 0)

\* After the graph of the network is built, line 113 is next.
AfterSetup(f) == [f EXCEPT !.tpc = "restore"]

\* Lines 101-109: the first image gives the shape of the placeholder and
\* the network is built on it.  data_in[0] of an empty list is an
\* IndexError.
TransferSetup ==
  /\ pc = "run"
  /\ Top.tpc = "setup"
  /\ IF Len(Top.data_in) = 0
     THEN Raise("index")
     ELSE /\ stack' = SetTop(AfterSetup(
                        [Top EXCEPT !.img_shape = read_img(Top.data_in[1]).shape]))
          /\ raised' = "none"
          /\ UNCHANGED <<made, opts, fs, models, passes, wrote, run, pc, m, full_in, full_out, gi,
                         groups, si, disk, exc, noom, snap>>

\* Lines 112-115: saver.restore(sess, model_path) returns, num_iters is
\* computed and the batch loop is entered.
Restore ==
  /\ pc = "run"
  /\ Top.tpc = "restore"
  /\ stack' = SetTop(LoopHead(
                [Top EXCEPT !.restored = TRUE,
                            !.num_iters = NumIters(Len(Top.paths_out), Top.batch_size)],
                0))
  /\ raised' = "none"
  /\ UNCHANGED <<made, opts, fs, models, passes, wrote, run, pc, m, full_in, full_out, gi,
                 groups, si, disk, exc, noom, snap>>

\* saver.restore fails: the checkpoint is missing or corrupt (ckpt), or
\* loading the variables exhausts the device (oom).
RestoreFail(kind) ==
  /\ pc = "run"
  /\ Top.tpc = "restore"
  /\ kind = "oom" => noom < MaxOOM
  /\ Raise(kind)

\* read_img(data_in[0]) fails (io), or building the network exhausts the
\* device (oom).
SetupFail(kind) ==
  /\ pc = "run"
  /\ Top.tpc = "setup"
  /\ Len(Top.data_in) > 0
  /\ kind = "oom" => noom < MaxOOM
  /\ Raise(kind)

\* A slip in the indentation of line 128: sess.run follows the fill loop.
RunAfterFill(f, x1, last) ==
  IF last
  THEN [preds |-> SessRun(f.model_path, x1), nruns |-> f.nruns + 1]
  ELSE [preds |-> f.preds, nruns |-> f.nruns]

\* Line 128, inside the fill loop: the network runs on the buffer as it is
\* after this slot was filled.
RunInFill(f, x1, last) ==
  [preds |-> SessRun(f.model_path, x1), nruns |-> f.nruns + 1]

\* x[j] = read_img(path_in); _preds = sess.run(...): one iteration of the
\* batch-fill loop.  Assigning an image of another shape to x[j] is a
\* ValueError (neither modelled shape broadcasts to the other).
Fill ==
  /\ pc = "run"
  /\ Top.tpc = "fill"
  /\ LET f == Top
         curr_batch_in == CurrBatch(f.data_in, f.i, f.batch_size)
         path_in == curr_batch_in[f.j + 1]
         img == read_img(path_in)
         x1 == [f.x EXCEPT ![f.j + 1] = img.pix]
         last == f.j + 1 >= Len(curr_batch_in)
     IN IF img.shape # f.img_shape
        THEN Raise("value")
        ELSE /\ stack' = SetTop([f EXCEPT !.x = x1,
                                          !.xsrc[f.j + 1] = path_in,
                                          !.preds = RunInFill(f, x1, last).preds,
                                          !.nruns = RunInFill(f, x1, last).nruns,
                                          !.j = IF last THEN 0 ELSE f.j + 1,
                                          !.tpc = IF last THEN "save" ELSE "fill"])
             /\ raised' = "none"
             /\ UNCHANGED <<made, opts, fs, models, passes, wrote, run, pc, m, full_in, full_out, gi,
                            groups, si, disk, exc, noom, snap>>

\* read_img fails (io) or sess.run exhausts the device (oom).
FillFail(kind) ==
  /\ pc = "run"
  /\ Top.tpc = "fill"
  /\ kind = "oom" => noom < MaxOOM
  /\ Raise(kind)

\* x[i] in lines 135 and 142: numpy raises IndexError past the buffer.
NeedsXi(mask, blend) == mask = 1 \/ blend > 0

XiInRange(f) == f.i < Len(f.x)

\* Lines 132-145 for slot j (0-based) of the batch of f: the array handed to
\* imsave.  blend is in hundredths and the pixel values are even, so the
\* product with blend / 100 is exact.
PostProcess(f, j, mask, blend) ==
  LET img == Clip(f.preds[j + 1])
      thr100 == MaxOf(Range(f.x[f.i + 1]))       \* 100 * thr
      inmask == [q \in DOMAIN img |-> IF 100 * f.x[j + 1][q] > thr100 THEN 1 ELSE 0]
      masked == IF mask = 1 THEN [q \in DOMAIN img |-> inmask[q] * img[q]] ELSE img
      inimg100 == [q \in DOMAIN img |-> f.x[f.i + 1][q] * blend]   \* 100 * inimg
  IN IF blend > 0
     THEN [q \in DOMAIN img |-> (inimg100[q] * masked[q]) \div 100]
     ELSE masked

\* imsave(path_out, img)
Imsave(d, path_out, img) == (path_out :> img) @@ d

\* One iteration of the save loop: post-process slot j and write it.
Save ==
  /\ pc = "run"
  /\ Top.tpc = "save"
  /\ LET f == Top
         curr_batch_out == CurrBatch(f.paths_out, f.i, f.batch_size)
         path_out == curr_batch_out[f.j + 1]
         last == f.j + 1 >= Len(curr_batch_out)
         img == PostProcess(f, f.j, f.mask, f.blend)
         g == [f EXCEPT !.own = Append(@, [src |-> f.xsrc[f.j + 1], out |-> path_out,
                                           pred |-> f.preds[f.j + 1], img |-> img]),
                        !.j = f.j + 1]
     IN IF NeedsXi(f.mask, f.blend) /\ ~XiInRange(f)
        THEN Raise("index")
        ELSE /\ disk' = Imsave(disk, path_out, img)
             /\ wrote' = wrote \cup {path_out}
             /\ stack' = SetTop(IF last THEN LoopHead(g, f.i + 1) ELSE g)
             /\ raised' = "none"
             /\ UNCHANGED <<made, opts, fs, models, passes, run, pc, m, full_in, full_out, gi,
                            groups, si, exc, noom, snap>>

\* imsave fails: the output path cannot be written.
SaveFail ==
  /\ pc = "run"
  /\ Top.tpc = "save"
  /\ ~(NeedsXi(Top.mask, Top.blend) /\ ~XiInRange(Top))
  /\ Raise("io")

\* A slip in the start of the remainder slices: one image past the batches.
RemainingStartOff(num_iters, batch_size) == num_iters * batch_size + 1

\* num_iters * batch_size, where the slices of lines 149-150 start.
RemainingStart(num_iters, batch_size) == num_iters * batch_size

\* A slip in the guard of the remainder call: eval is called in any case.
HasRemainingAlways(remaining_in) == TRUE

\* if len(remaining_in) > 0
HasRemaining(remaining_in) == Len(remaining_in) > 0

\* A slip in the remainder call: the device the session runs on is passed
\* instead of the configured one.
RemainderCallOnCtx(f, remaining_in, remaining_out) ==
  EvalFrame(remaining_in, remaining_out, f.model_path, f.ctx, f.batch_size,
            f.mask, f.blend)

\* eval(remaining_in, remaining_out, model_path, device=device,
\*      batch_size=batch_size, mask=mask, blend=blend) with transfer's
\* own parameters.
RemainderCall(f, remaining_in, remaining_out) ==
  EvalFrame(remaining_in, remaining_out, f.model_path, f.device, f.batch_size,
            f.mask, f.blend)

\* Lines 149-155: the images past the last full batch go to a new eval call.
Remainder ==
  /\ pc = "run"
  /\ Top.tpc = "rem"
  /\ LET f == Top
         remaining_in == PyFrom(f.data_in, RemainingStart(f.num_iters, f.batch_size))
         remaining_out == PyFrom(f.paths_out, RemainingStart(f.num_iters, f.batch_size))
     IN stack' = IF HasRemaining(remaining_in)
                 THEN Append(SetTop([f EXCEPT !.tpc = "call", !.calls = @ + 1]),
                             RemainderCall(f, remaining_in, remaining_out))
                 ELSE SetTop([f EXCEPT !.tpc = "ret"])
  /\ raised' = "none"
  /\ UNCHANGED <<made, opts, fs, models, passes, wrote, run, pc, m, full_in, full_out, gi, groups,
                 si, disk, exc, noom, snap>>

\* transfer returns, the `with` block closes the session and eval returns:
\* to the transfer call that made it, or to eval_mul_dims.
Return ==
  /\ pc = "run"
  /\ Top.tpc = "ret"
  /\ IF Len(stack) = 1
     THEN /\ stack' = <<>>
          /\ si' = si + 1
          /\ pc' = "evals"
     ELSE /\ stack' = [SubSeq(stack, 1, Len(stack) - 1) EXCEPT
                         ![Len(stack) - 1].tpc = "ret",
                         ![Len(stack) - 1].sub = Top.own \o Top.sub,
                         ![Len(stack) - 1].subruns = Top.nruns + Top.subruns]
          /\ UNCHANGED <<si, pc>>
  /\ raised' = "none"
  /\ UNCHANGED <<made, opts, fs, models, passes, wrote, run, m, full_in, full_out, gi, groups,
                 disk, exc, noom, snap>>

\* ------------------------------------------------------------ a second run
\* The program is started again with the same arguments: a new process,
\* the files as the previous run left them (the output directory exists).
Rerun ==
  /\ pc = "done"
  /\ run < MaxRuns
  /\ run' = run + 1
  /\ pc' = "opts"
  /\ opts' = [opts EXCEPT !.out_new = FALSE]
  /\ made' = FALSE
  /\ m' = 1
  /\ full_in' = <<>>
  /\ full_out' = <<>>
  /\ gi' = 0
  /\ groups' = <<>>
  /\ si' = 1
  /\ noom' = 0
  /\ passes' = <<>>
  /\ wrote' = {}
  /\ raised' = "none"
  /\ UNCHANGED <<fs, models, stack, disk, exc, snap>>

\* ----------------------------------------------------------- specification
\* The picture stored in input file k.  No two files hold the same pixels,
\* so the content of an output names the input it was computed from.  The odd
\* files are dark (4, 0), (8, 0), ...; the even files (2, 200), (6, 200), ...
\* have a bright pixel, and the first pixel of file 2 is exactly 1% of it.
FilePix(k) == IF k % 2 = 1 THEN <<2 * (k + 1), 0>> ELSE <<2 * (k - 1), 200>>

\* The two shapes are interchangeable: the first file has the first one.
FirstShape == <<1, 2, 3>>

\* Arguments get_opts rejects: -b 0, -ma 2, -bl 1.5.
BadBatch == {0}
BadMasks == {2}
BadBlends == {150}

Init ==
  /\ opts \in [batch_size : BadBatch \cup 1..MaxB, mask : Masks \cup BadMasks,
               blend : Blends \cup BadBlends,
               in_exists : BOOLEAN, out_new : BOOLEAN,
               in_isdir : BOOLEAN, out_isdir : BOOLEAN]
  /\ opts.out_new => opts.out_isdir
  /\ \E n \in 0..MaxN : \E sh \in [1..n -> Shapes] :
        /\ n >= 1 => sh[1] = FirstShape
        /\ fs = [k \in 1..n |-> [shape |-> sh[k], pix |-> FilePix(k)]]
  /\ opts.in_exists => (opts.in_isdir \/ Len(fs) = 1)
  /\ ~opts.in_exists => (~opts.in_isdir /\ fs = <<>>)
  /\ \E k \in 1..MaxModels : models = [c \in 1..k |-> c]
  /\ run = 1
  /\ pc = "opts"
  /\ m = 1
  /\ full_in = <<>>
  /\ full_out = <<>>
  /\ gi = 0
  /\ groups = <<>>
  /\ si = 1
  /\ stack = <<>>
  /\ disk = <<>>
  /\ exc = "none"
  /\ raised = "none"
  /\ noom = 0
  /\ snap = <<>>
  /\ passes = <<>>
  /\ wrote = {}
  /\ made = FALSE

Next ==
  \/ GetOpts
  \/ GetOptsFail
  \/ MainPass
  \/ MainDone
  \/ GroupStep
  \/ GroupFail
  \/ EvalCall
  \/ PassDone
  \/ TransferSetup
  \/ \E kind \in {"io", "oom"} : SetupFail(kind)
  \/ Restore
  \/ \E kind \in {"ckpt", "oom"} : RestoreFail(kind)
  \/ Fill
  \/ \E kind \in {"io", "oom"} : FillFail(kind)
  \/ Save
  \/ SaveFail
  \/ Remainder
  \/ Return

Spec == Init /\ [][Next]_vars

\* Two runs without post-processing (mask = 0, blend = 0).
InitPlain == Init /\ opts.mask = 0 /\ opts.blend = 0

NextTwice == Next \/ Rerun

SpecTwice == InitPlain /\ [][NextTwice]_vars

\* One run of the sequential program, which goes on while a statement is
\* left to execute.
SpecLive == InitPlain /\ [][Next]_vars /\ WF_vars(Next)

\* ------------------------------------------------------- claims: helpers
Outs(log) == [k \in DOMAIN log |-> log[k].out]
Srcs(log) == [k \in DOMAIN log |-> log[k].src]

\* Images of a request of n images that full batches of e images cover.
FullPart(n, e) == n - (n % e)

\* The indices i <= n of full_in whose image has the shape key `key`,
\* ascending.
ShapeOfInput(i) == ShapeKey(Imread(full_in[i]).shape)
IdxOf(key, n) == SelectSeq([i \in 1..n |-> i], LAMBDA i : ShapeOfInput(i) = key)

\* ------------------------------------------------------------- claim C1
\* C1: an eval call that returns normally has written every one of its N
\* output paths: when its transfer call is about to return, the outputs
\* transfer wrote itself are the first floor(N/E)*E paths of paths_out in
\* order (the full batches), the outputs of the eval call it made for the
\* remainder are the other N mod E paths in order, and every path of
\* paths_out is a file on disk.
C1_AllOutputsWritten ==
  \A d \in DOMAIN stack :
    stack[d].tpc = "ret" =>
      LET f == stack[d]
          n == Len(f.paths_out)
          e == Min(f.batch_size, n)
      IN /\ Outs(f.own) = SubSeq(f.paths_out, 1, FullPart(n, e))
         /\ Outs(f.sub) = SubSeq(f.paths_out, FullPart(n, e) + 1, n)
         /\ Range(f.paths_out) \subseteq DOMAIN disk
         /\ Range(f.paths_out) \subseteq wrote

\* An outermost eval call with N % B # 0 and N > B is about to return: its
\* remainder went through the recursion.
C1_Witness ==
  /\ Len(stack) = 1
  /\ stack[1].tpc = "ret"
  /\ Len(stack[1].paths_out) > opts.batch_size
  /\ Len(stack[1].paths_out) % opts.batch_size # 0
  /\ stack[1].sub # <<>>

\* ------------------------------------------------------------- claim C4
\* C4: the shape groups partition the inputs seen so far: the keys of the
\* groups are pairwise different, every input index i <= gi has a group keyed
\* by the shape of its image, and the group of key k holds exactly the inputs
\* of the indices whose image has shape k, in ascending index order, with the
\* outputs of the same indices in the same order (so an index is in one
\* group, once).
C4_GroupsPartition ==
  /\ \A a, b \in DOMAIN groups : groups[a].shape = groups[b].shape => a = b
  /\ \A i \in 1..gi : \E k \in DOMAIN groups : groups[k].shape = ShapeOfInput(i)
  /\ \A k \in DOMAIN groups :
       LET idx == IdxOf(groups[k].shape, gi)
       IN /\ idx # <<>>
          /\ groups[k].ins = [j \in DOMAIN idx |-> full_in[idx[j]]]
          /\ groups[k].outs = [j \in DOMAIN idx |-> full_out[idx[j]]]
  /\ \A i \in 1..gi :
       Cardinality({k \in DOMAIN groups : full_in[i] \in Range(groups[k].ins)}) = 1

\* The grouping of at least three inputs of two interleaved shapes is done.
C4_Witness ==
  /\ pc = "evals"
  /\ Len(groups) = 2
  /\ gi >= 3
  /\ ShapeOfInput(1) = ShapeOfInput(3)
  /\ ShapeOfInput(1) # ShapeOfInput(2)

\* ------------------------------------------------------------- claim C8
\* C8: for the outermost eval call on N inputs with requested batch size B:
\* the batch size of its transfer call is E = min(B, N); each batch that is
\* saved holds exactly the E inputs i*E+1 .. i*E+E of the call, in order;
\* once the batch loop is left, transfer has written floor(N/E)*E outputs,
\* those of the first inputs in order; it makes an eval call iff N mod E # 0,
\* at most one, and that call gets exactly the last N mod E inputs and
\* outputs.
C8_BatchesAndRemainder ==
  Len(stack) >= 1 =>
    LET f == stack[1]
        n == Len(f.data_in)
        e == Min(opts.batch_size, n)
        full == (n \div e) * e
    IN /\ f.batch_size = e
       /\ f.tpc = "save" =>
            /\ f.i * e + e <= n
            /\ f.xsrc = SubSeq(f.data_in, f.i * e + 1, f.i * e + e)
       /\ f.tpc \in {"rem", "call", "ret"} =>
            /\ Len(f.own) = full
            /\ Srcs(f.own) = SubSeq(f.data_in, 1, full)
            /\ Outs(f.own) = SubSeq(f.paths_out, 1, full)
       /\ f.calls <= 1
       /\ f.tpc \in {"setup", "restore", "fill", "save", "rem"} => f.calls = 0
       /\ f.tpc \in {"call", "ret"} => (f.calls = 1 <=> n % e # 0)
       /\ Len(stack) >= 2 =>
            /\ f.tpc = "call"
            /\ stack[2].data_in = SubSeq(f.data_in, full + 1, n)
            /\ stack[2].paths_out = SubSeq(f.paths_out, full + 1, n)
            /\ Len(stack[2].data_in) = n % e
       /\ f.tpc = "ret" => Len(f.sub) = n % e

\* The spec's scenario: 5 images, batch size 2; two full batches (4 images)
\* written by transfer, 1 image by the recursion, 5 output files.
C8_Witness ==
  /\ Len(stack) = 1
  /\ stack[1].tpc = "ret"
  /\ Len(stack[1].data_in) = 5
  /\ opts.batch_size = 2
  /\ stack[1].i = 1
  /\ Len(stack[1].own) = 4
  /\ Len(stack[1].sub) = 1
  /\ Cardinality(DOMAIN disk) = 5

\* ------------------------------------------------------------- claim C9
\* C9: in every transfer call, all inputs of the call have the shape whose
\* key is the key of the group eval_mul_dims is working on; once the
\* placeholder is built its shape is the shape of the first input of the
\* call and has that key; every image decoded into a slot of the buffer has
\* the shape of the buffer, and no decode ever fails on a shape mismatch.
C9_UniformBatchShape ==
  /\ raised # "value"
  /\ exc # "value"
  /\ \A d \in DOMAIN stack :
       LET f == stack[d]
       IN /\ \A k \in DOMAIN f.data_in :
               ShapeKey(Imread(f.data_in[k]).shape) = groups[si].shape
          /\ f.tpc # "setup" =>
               /\ f.img_shape = Imread(f.data_in[1]).shape
               /\ ShapeKey(f.img_shape) = groups[si].shape
               /\ \A k \in DOMAIN f.xsrc :
                    f.xsrc[k] # <<>> => Imread(f.xsrc[k]).shape = f.img_shape

\* A Fallback attempt of an eval call made by the remainder recursion has
\* decoded an image, in a run with two shape groups.
C9_Witness ==
  /\ Len(stack) = 2
  /\ stack[2].phase = "fallback"
  /\ stack[2].tpc = "save"
  /\ stack[2].xsrc[1] # <<>>
  /\ Len(groups) = 2

\* ------------------------------------------------------------- claim C2
\* C2 (as claimed): in every step, no eval call has entered its handler more
\* than once, and a ResourceExhaustedError raised while the innermost eval
\* call runs its Fallback attempt ends the run: no activation catches it.
C2_SecondExhaustionFatal ==
  [][ /\ \A d \in DOMAIN stack' : stack'[d].trans <= 1
      /\ (pc = "run" /\ raised' = "oom" /\ Top.phase = "fallback")
           => (pc' = "aborted" /\ stack' = <<>>) ]_vars

\* ------------------------------------------------------------- claim C3
\* C3: a step takes an eval call from Primary to Fallback only if it raised
\* a ResourceExhaustedError; a step that raises anything else ends the run
\* at once (every activation is left, nothing is written, and eval_mul_dims
\* and main do not advance), and an ended run takes no further step: no
\* batch, no shape group and no model is processed after it.
C3_OnlyExhaustionRetried ==
  [][ /\ \A d \in DOMAIN stack :
           (d \in DOMAIN stack' /\ stack[d].phase = "primary"
              /\ stack'[d].phase = "fallback") => raised' = "oom"
      /\ raised' \notin {"none", "oom"} =>
           /\ pc' = "aborted"
           /\ exc' = raised'
           /\ stack' = <<>>
           /\ disk' = disk
           /\ si' = si
           /\ m' = m
      /\ pc = "aborted" => UNCHANGED vars ]_vars

\* An I/O error ended the run in the Primary attempt of an eval call after
\* outputs were written, with a shape group and a model still to come.
C3_Witness ==
  /\ pc = "aborted"
  /\ exc = "io"
  /\ noom = 0
  /\ disk # <<>>
  /\ si < Len(groups)
  /\ m < Len(models)

\* ------------------------------------------------------------- claim C5
\* The post-processing of one image by its own input: the mask from 1% of
\* the maximum of that input, the blend factor image from that input.
IdealPost(model, pix, mask, blend) ==
  LET img == Clip([q \in DOMAIN pix |-> NetPix(model, pix[q])])
      masked == [q \in DOMAIN pix |->
                   IF mask = 1 /\ 100 * pix[q] <= MaxOf(Range(pix)) THEN 0 ELSE img[q]]
  IN IF blend > 0
     THEN [q \in DOMAIN pix |-> (pix[q] * blend * masked[q]) \div 100]
     ELSE masked

\* C5 (as claimed): every output a transfer call wrote is the post-processing
\* of the prediction by the input decoded into the same slot: with mask=1 it
\* is zero wherever that input is at most 1% of its own maximum, with
\* blend=b>0 it is b * that input * prediction.
C5_PostProcessOwnInput ==
  \A d \in DOMAIN stack :
    \A k \in DOMAIN stack[d].own :
      LET e == stack[d].own[k]
          pix == Imread(e.src).pix
      IN /\ e.img = IdealPost(stack[d].model_path, pix, opts.mask, opts.blend)
         /\ opts.mask = 1 =>
              \A q \in DOMAIN pix : 100 * pix[q] <= MaxOf(Range(pix)) => e.img[q] = 0

\* ------------------------------------------------------------- claim C6
\* C6 (as claimed): when main is done, it has made one pass per model, and
\* for every input the passes wrote to pairwise different output paths.
C6_DistinctOutputsPerModel ==
  (pc = "done" /\ exc = "none") =>
    /\ Len(passes) = Len(models)
    /\ \A a, b \in DOMAIN passes :
         a # b => \A i \in DOMAIN passes[a].full_out :
                    passes[a].full_out[i] # passes[b].full_out[i]

\* ------------------------------------------------------------- claim C7
\* What a transfer call on (data_in, paths_out) with batch size e that meets
\* no error writes for the image of index k (1-based): the image sits in slot
\* (k-1) mod e of batch (k-1) div e, or, past the full batches, in a batch of
\* its own made of the remainder.
DirectValue(data_in, model, e, k, mask, blend) ==
  LET n == Len(data_in)
      full == (n \div e) * e
      first == IF k <= full THEN ((k - 1) \div e) * e ELSE full
      size == IF k <= full THEN e ELSE n - full
      x == [t \in 1..size |-> Imread(data_in[first + t]).pix]
      f == [x |-> x, i |-> IF k <= full THEN (k - 1) \div e ELSE 0,
            preds |-> SessRun(model, x)]
  IN PostProcess(f, k - first - 1, mask, blend)

\* The last index of paths_out that names the path p.
LastIndex(paths_out, p) == MaxOf({k \in DOMAIN paths_out : paths_out[k] = p})

\* The content of p after that transfer call: the last write to p stays.
DirectFinal(data_in, paths_out, model, e, p, mask, blend) ==
  DirectValue(data_in, model, e, LastIndex(paths_out, p), mask, blend)

\* Does that transfer call meet no IndexError?  Every batch number it
\* indexes x with must be below e (the remainder is batch 0 of its own call).
DirectCompletes(n, e, mask, blend) == NeedsXi(mask, blend) => n \div e <= e

\* C7: when an eval call made by eval_mul_dims returns from its Fallback
\* attempt, the same request (same lists, model, clamped batch size, mask,
\* blend) run directly completes as well, and every output path of the
\* request holds what that run leaves in it, whatever the failed Primary
\* attempt had written.
C7_FallbackEqualsDirect ==
  (Len(stack) = 1 /\ stack[1].phase = "fallback" /\ stack[1].tpc = "ret") =>
    LET ins == groups[si].ins
        outs == groups[si].outs
        e == Min(Len(outs), opts.batch_size)
    IN /\ DirectCompletes(Len(ins), e, opts.mask, opts.blend)
       /\ \A k \in DOMAIN outs :
            /\ outs[k] \in DOMAIN disk
            /\ disk[outs[k]] = DirectFinal(ins, outs, models[m], e, outs[k],
                                           opts.mask, opts.blend)

\* The Primary attempt failed between batch writes (it had written some but
\* not all outputs) and the Fallback attempt is complete.
C7_Witness ==
  /\ Len(stack) = 1
  /\ stack[1].phase = "fallback"
  /\ stack[1].tpc = "ret"
  /\ stack[1].pwrote >= 1
  /\ stack[1].pwrote < Len(stack[1].paths_out)
  /\ Cardinality(DOMAIN disk) >= 3

\* ------------------------------------------------------------ claim C10
\* C10: with mask=0 and blend=0, when a second (or later) run of the program
\* on the same files is done, it has written the same set of paths as the
\* first run and every output file holds what the first run left in it.
C10_SecondRunSameOutputs ==
  (run >= 2 /\ pc = "done" /\ opts.mask = 0 /\ opts.blend = 0) =>
    /\ wrote = DOMAIN snap
    /\ disk = snap

\* A second run over two shape groups and several output files is done.
C10_Witness ==
  /\ run = 2
  /\ pc = "done"
  /\ opts.mask = 0
  /\ opts.blend = 0
  /\ Len(groups) = 2
  /\ Cardinality(DOMAIN disk) >= 3
  /\ wrote = DOMAIN disk

\* ------------------------------------------------------------ claim C11
\* C11 (as claimed): when get_opts has rejected the configuration, nothing
\* was done: no pass was started, no activation is live, no file was written
\* and the output directory was not created.
C11_RejectedConfigNoWork ==
  exc = "assert" =>
    /\ passes = <<>>
    /\ stack = <<>>
    /\ wrote = {}
    /\ ~made

\* ------------------------------------------------------------ claim C12
\* C12: no step removes a written output, and the content of a written
\* output changes only in a step of the save loop that writes that very path
\* again; a step that raises an exception (whether a Fallback catches it or
\* the run ends) leaves every file as it was.
C12_WrittenOutputsKept ==
  [][/\ \A p \in DOMAIN disk :
          /\ p \in DOMAIN disk'
          /\ disk'[p] # disk[p] =>
               /\ raised' = "none"
               /\ Len(stack') = Len(stack)
               /\ stack' # <<>>
               /\ Len(stack'[Len(stack')].own) = Len(Top.own) + 1
               /\ stack'[Len(stack')].own[Len(Top.own) + 1].out = p
               /\ stack'[Len(stack')].own[Len(Top.own) + 1].img = disk'[p]
     /\ raised' # "none" => disk' = disk]_vars

\* A Fallback in progress after a Primary attempt that wrote two outputs: the
\* first was written again, the second is still the Primary's.
C12_Witness ==
  /\ stack # <<>>
  /\ Top.phase = "fallback"
  /\ Top.pwrote >= 2
  /\ Len(Top.own) = 1
  /\ Top.paths_out[2] \in DOMAIN disk
  /\ Top.paths_out[2] # Top.paths_out[1]

\* ------------------------------------------------------------ claim C13
\* C13: with zero input images the shape mapping stays empty and eval is
\* never called (no activation, no session, nothing written); and no eval
\* call, from eval_mul_dims or from the remainder of a transfer call, is
\* ever given an empty list, so the effective batch size of every call is at
\* least 1.
C13_NoEvalOnEmpty ==
  /\ (pc # "opts" /\ Len(fs) = 0) =>
        /\ groups = <<>>
        /\ stack = <<>>
        /\ pc # "run"
        /\ wrote = {}
        /\ disk = <<>>
  /\ \A k \in DOMAIN groups :
        Len(groups[k].ins) >= 1 /\ Len(groups[k].outs) >= 1
  /\ \A d \in DOMAIN stack :
        /\ Len(stack[d].data_in) >= 1
        /\ Len(stack[d].paths_out) >= 1
        /\ stack[d].batch_size >= 1

\* A run over an empty input directory went through a pass of every model
\* and ended normally.
C13_Witness ==
  /\ pc = "done"
  /\ Len(fs) = 0
  /\ Len(models) = MaxModels
  /\ Len(passes) = Len(models)

\* ------------------------------------------------------------ claim C14
\* The remainder call made by activation d - 1 is activation d: its list is
\* shorter than one batch of its caller, its own batch is the whole list,
\* so it has one batch, no remainder and makes no call.
NestedIsLastLevel(d) ==
  /\ Len(stack[d].data_in) < Len(stack[d - 1].data_in)
  /\ Len(stack[d].data_in) < stack[d - 1].batch_size
  /\ stack[d].batch_size = Len(stack[d].data_in)
  /\ stack[d].calls = 0
  /\ stack[d].tpc \notin {"setup", "restore", "call"} => stack[d].num_iters = 1
  /\ stack[d].tpc \in {"rem", "ret"} =>
        PyFrom(stack[d].data_in, RemainingStart(stack[d].num_iters, stack[d].batch_size)) = <<>>

\* C14: the remainder recursion terminates.  Each recursive call gets a
\* strictly shorter list, the recursive call never has a remainder of its
\* own, the nesting depth is at most two, an activation makes at most one
\* remainder call, and every run ends (normally or by an exception).
C14_RecursionTerminates ==
  /\ [](/\ Len(stack) <= 2
        /\ \A d \in DOMAIN stack : stack[d].calls <= 1
        /\ \A d \in 2..Len(stack) : NestedIsLastLevel(d))
  /\ <>(pc \in {"done", "aborted"})

\* The nested call is about to return after its only batch.
C14_Witness ==
  /\ Len(stack) = 2
  /\ Top.tpc = "ret"
  /\ Len(Top.data_in) = 2
  /\ Len(Top.own) = 2

\* ------------------------------------------------------------ claim C15
\* The pair (input path, output path) is one that main built: the two paths
\* stand at the same index of full_in and full_out.
PairOfMain(path_in, path_out) ==
  \E i \in DOMAIN full_in : full_in[i] = path_in /\ full_out[i] = path_out

\* What the network of `model` returns for the picture stored at path_in.
PredictionFor(model, path_in) ==
  [q \in DOMAIN Imread(path_in).pix |-> NetPix(model, Imread(path_in).pix[q])]

\* The writes logged in `log` are those of inputs[off + 1 ..] to
\* outputs[off + 1 ..], position by position, each from the prediction for
\* its own input (and, without mask and blend, written as predicted).
AlignedWrites(f, log, off) ==
  /\ off + Len(log) <= Len(f.data_in)
  /\ \A t \in DOMAIN log :
        /\ log[t].src = f.data_in[off + t]
        /\ log[t].out = f.paths_out[off + t]
        /\ log[t].pred = PredictionFor(f.model_path, f.data_in[off + t])
        /\ ~NeedsXi(opts.mask, opts.blend) => log[t].img = Clip(log[t].pred)

\* C15: the positional pairing of inputs and outputs survives grouping,
\* batching, the remainder call and the Fallback.  Every group and every
\* eval call holds two lists of equal length whose k-th elements are a pair
\* built by main; while a batch is saved its buffer holds the batch's
\* inputs slot by slot; and the array handed to the post-processing for
\* outputs[k] is the prediction for inputs[k].
C15_PositionalAlignment ==
  /\ Len(full_in) = Len(full_out)
  /\ \A k \in DOMAIN groups :
        /\ Len(groups[k].ins) = Len(groups[k].outs)
        /\ \A t \in DOMAIN groups[k].ins :
              PairOfMain(groups[k].ins[t], groups[k].outs[t])
  /\ \A d \in DOMAIN stack :
        LET f == stack[d]
        IN /\ Len(f.data_in) = Len(f.paths_out)
           /\ \A t \in DOMAIN f.data_in : PairOfMain(f.data_in[t], f.paths_out[t])
           /\ AlignedWrites(f, f.own, 0)
           /\ f.sub # <<>> => AlignedWrites(f, f.sub, Len(f.data_in) - Len(f.sub))
           /\ f.tpc = "save" =>
                 \A s \in 1..f.batch_size :
                    /\ f.i * f.batch_size + s <= Len(f.data_in)
                    /\ f.xsrc[s] = f.data_in[f.i * f.batch_size + s]
                    /\ f.x[s] = Imread(f.xsrc[s]).pix
                    /\ f.preds[s] = PredictionFor(f.model_path, f.xsrc[s])

\* A Fallback has written the second batch of a group that is not the whole
\* input, and its transfer call also got the writes of its remainder call.
C15_Witness ==
  /\ stack # <<>>
  /\ Top.phase = "fallback"
  /\ Top.tpc = "ret"
  /\ Len(Top.own) = 4
  /\ Len(Top.sub) = 1

C17_AtMostOneSession == OpenSessions <= 1

\* ------------------------------------------------------------ claim C19
\* C19 (as claimed): every read of the batch buffer in the save loop is
\* inside the buffer, whatever the mask and blend settings, and no run is
\* ended by an IndexError.
C19_BufferIndexInRange ==
  /\ \A d \in DOMAIN stack :
        (stack[d].tpc = "save" /\ NeedsXi(opts.mask, opts.blend)) => XiInRange(stack[d])
  /\ raised # "index"
  /\ exc # "index"

\* ------------------------------------------------------------ claim C18
\* C18: in each batch the network is executed once per decoded image: after
\* j slots of batch i are filled the transfer call has made i * E + j
\* executions, the last on the buffer as filled so far; when the batch is
\* saved the predictions are those of the execution on the completely
\* filled buffer; and a transfer call that returns has made one execution
\* per image, its remainder call included (N for N images).
C18_OneRunPerDecodedImage ==
  \A d \in DOMAIN stack :
    LET f == stack[d]
        e == f.batch_size
    IN /\ f.tpc = "fill" =>
             /\ f.nruns = f.i * e + f.j
             /\ f.j > 0 => f.preds = SessRun(f.model_path, f.x)
       /\ f.tpc = "save" =>
             /\ f.nruns = (f.i + 1) * e
             /\ \A s \in 1..e : f.xsrc[s] # <<>> /\ f.x[s] = Imread(f.xsrc[s]).pix
             /\ f.preds = SessRun(f.model_path, f.x)
       /\ f.tpc \in {"rem", "call", "ret"} =>
             /\ f.nruns = f.num_iters * e
             /\ f.nruns = Len(f.own)
       /\ f.tpc = "ret" => f.nruns + f.subruns = Len(f.data_in)

\* A run without any error is about to return from the eval call on five
\* images in batches of two: four executions of its own and one of the
\* remainder call.
C18_Witness ==
  /\ Len(stack) = 1
  /\ noom = 0
  /\ Top.phase = "primary"
  /\ Top.tpc = "ret"
  /\ Top.batch_size = 2
  /\ Top.nruns = 4
  /\ Top.subruns = 1

\* ------------------------------------------------------------ claim C20
\* C20: the eval call made for the remainder has the model, the configured
\* device, the mask and the blend of the call that made it, whether that
\* call is in its Primary attempt or in its Fallback.  It starts in
\* Primary on the configured device and goes to its Fallback on the CPU
\* only in a step in which its own transfer call raised a
\* ResourceExhaustedError.
C20_RemainderCallSameSettings ==
  [][/\ \A d \in 2..Len(stack) :
          /\ stack[d].model_path = stack[d - 1].model_path
          /\ stack[d].device = stack[d - 1].device
          /\ stack[d].device = Device
          /\ stack[d].mask = stack[d - 1].mask /\ stack[d].mask = opts.mask
          /\ stack[d].blend = stack[d - 1].blend /\ stack[d].blend = opts.blend
          /\ stack[d].phase = "primary" => stack[d].ctx = Device /\ stack[d].trans = 0
          /\ stack[d].phase = "fallback" => stack[d].ctx = CpuDevice /\ stack[d].trans = 1
     /\ (Len(stack) >= 1 /\ Len(stack') = Len(stack) + 1) =>
          /\ stack'[Len(stack')].phase = "primary"
          /\ stack'[Len(stack')].ctx = Device
          /\ stack'[Len(stack')].tpc = "setup"
     /\ \A d \in 2..Len(stack) :
          (Len(stack') >= d /\ stack[d].phase = "primary"
             /\ stack'[d].phase = "fallback")
            => /\ raised' = "oom"
               /\ Len(stack) = d
               /\ Len(stack') = d]_vars

\* Inside the Fallback of the outer call, the remainder call is saving in
\* its Primary attempt on the configured device.
C20_Witness ==
  /\ Len(stack) = 2
  /\ stack[1].phase = "fallback"
  /\ stack[1].ctx = CpuDevice
  /\ stack[2].phase = "primary"
  /\ stack[2].ctx = Device
  /\ stack[2].tpc = "save"

====
